---- MODULE Spec2Model ----
(***************************************************************************)
(* Cookie based FastAPI authentication: the token codec (security.py), the *)
(* access and refresh checkpoints (dependencies.py), the cookie helpers    *)
(* (helpers.py) and the routes (routes.py).  The service layer             *)
(* (app/authentication/services.py), the ORM models and the settings are   *)
(* not among the source files; they are modelled from the specification.   *)
(*                                                                         *)
(* Time is counted in ticks, TicksPerSecond ticks to the second: utcnow()  *)
(* has sub-second resolution, while the exp claim of a token and the clock *)
(* jwt.decode compares it with are whole seconds (calendar.timegm).        *)
(***************************************************************************)
EXTENDS Integers, FiniteSets, Sequences, TLC

VARIABLES
    now,        \* utcnow(), in ticks
    advances,   \* how many times the clock has advanced
    requests,   \* how many requests have been received
    settings,   \* app.core.config.settings: the two default TTLs
    users,      \* the User table: email -> row, or NoUser
    blacklist,  \* the TokenBlacklist table: the set of recorded token strings
    resets,     \* the PasswordResetToken table
    issued,     \* every token string a response has carried in a cookie
    inflight,   \* requests between two awaits: past a checkpoint step
    last,       \* the response of the request that completed last
    hist        \* what past requests and calls did (read by the properties only)

vars == <<now, advances, requests, settings, users, blacklist, resets, issued, inflight, last, hist>>

----------------------------------------------------------------------------
(* Bounds of the model *)

TicksPerSecond == 2
MaxAdvances == 2
MaxRequests == 4
MaxInflight == 2
MaxResets == 1
MaxExpirySetting == 2
MaxCodecTicks == 4
MaxDelta == 3

Emails == {"a@x.io"}
Passwords == {"pw1", "pw2"}
ResetSecrets == 1..MaxResets

----------------------------------------------------------------------------
(* Python values *)

NoneStr == "<None>"
None == [isNone |-> TRUE]
NoDelta == <<>>
Delta(d) == <<d>>

\* dict.get(key) of a claims mapping with string values
dict_get(d, k) == IF k \in DOMAIN d THEN d[k] ELSE NoneStr

\* dict.setdefault for every key of other: the keys d has keep their values
dict_update_keeping(d, other) ==
    [k \in (DOMAIN d) \cup (DOMAIN other) |->
        IF k \in DOMAIN d THEN d[k] ELSE other[k]]

\* dict.update(other)
dict_update(d, other) ==
    [k \in (DOMAIN d) \cup (DOMAIN other) |->
        IF k \in DOMAIN other THEN other[k] ELSE d[k]]

\* bool(expires_delta): None and timedelta(0) are falsy
truthy_delta(expires_delta) == expires_delta # NoDelta /\ expires_delta[1] # 0

timedelta_seconds(s) == s * TicksPerSecond
timedelta_minutes(m) == m * 60 * TicksPerSecond
timedelta_days(d) == d * 24 * 60 * 60 * TicksPerSecond

\* calendar.timegm(dt.utctimetuple()): whole seconds, the fraction dropped
timegm(t) == t \div TicksPerSecond

----------------------------------------------------------------------------
(* security.py: the token codec *)

\* jwt.encode: the string is a function of the claims and the key; a datetime
\* exp claim is written as whole seconds
jwt_encode(to_encode) ==
    [sig |-> "ok", claims |-> [to_encode EXCEPT !["exp"] = timegm(@)]]

create_access_token(data, expires_delta, utcnow, cfg) ==
    LET expire == IF truthy_delta(expires_delta)
                  THEN utcnow + expires_delta[1]
                  ELSE utcnow + timedelta_minutes(cfg.ACCESS_TOKEN_EXPIRY)
        to_encode == dict_update(data, [exp |-> expire, type |-> "access"])
    IN  jwt_encode(to_encode)

\* create_refresh_token as a copy of create_access_token with the type left as it was
create_refresh_token_typed_access(data, expires_delta, utcnow, cfg) ==
    LET expire == IF truthy_delta(expires_delta)
                  THEN utcnow + expires_delta[1]
                  ELSE utcnow + timedelta_days(cfg.REFRESH_TOKEN_EXPIRY)
        to_encode == dict_update(data, [exp |-> expire, type |-> "access"])
    IN  jwt_encode(to_encode)

create_refresh_token(data, expires_delta, utcnow, cfg) ==
    LET expire == IF truthy_delta(expires_delta)
                  THEN utcnow + expires_delta[1]
                  ELSE utcnow + timedelta_days(cfg.REFRESH_TOKEN_EXPIRY)
        to_encode == dict_update(data, [exp |-> expire, type |-> "refresh"])
    IN  jwt_encode(to_encode)

\* The dict objects a call works on.  data is the caller's object; data.copy()
\* makes a second object with the same items, to_encode names it, and
\* to_encode.update writes to the object to_encode names.  The call returns
\* the token and leaves the caller's object as the record says.
create_access_token_call(data, expires_delta, utcnow, cfg) ==
    LET objects == [data |-> data, copy |-> data]
        to_encode == "copy"
        expire == IF truthy_delta(expires_delta)
                  THEN utcnow + expires_delta[1]
                  ELSE utcnow + timedelta_minutes(cfg.ACCESS_TOKEN_EXPIRY)
        updated == [objects EXCEPT ![to_encode] =
                        dict_update(@, [exp |-> expire, type |-> "access"])]
    IN  [returned |-> jwt_encode(updated[to_encode]), data |-> updated["data"]]

create_refresh_token_call(data, expires_delta, utcnow, cfg) ==
    LET objects == [data |-> data, copy |-> data]
        to_encode == "copy"
        expire == IF truthy_delta(expires_delta)
                  THEN utcnow + expires_delta[1]
                  ELSE utcnow + timedelta_days(cfg.REFRESH_TOKEN_EXPIRY)
        updated == [objects EXCEPT ![to_encode] =
                        dict_update(@, [exp |-> expire, type |-> "refresh"])]
    IN  [returned |-> jwt_encode(updated[to_encode]), data |-> updated["data"]]

\* jwt.decode raises JWTError on a malformed string, a bad signature, or an exp
\* claim before the current second; decode_token turns each into None
\* decode_token with the expiry check switched off (options verify_exp False)
decode_token_ignoring_expiry(token, utcnow) ==
    IF token.sig # "ok" THEN None ELSE token.claims

decode_token(token, utcnow) ==
    IF token.sig # "ok" THEN None
    ELSE IF token.claims["exp"] < timegm(utcnow) THEN None
    ELSE token.claims

----------------------------------------------------------------------------
(* Cookie values and responses *)

\* request.cookies.get(name) when the request carries no such cookie
NoCookie == [sig |-> "none", claims |-> None]
\* an empty cookie value
EmptyCookie == [sig |-> "empty", claims |-> None]
\* a string that is no JWT at all
Malformed == [sig |-> "malformed", claims |-> None]
\* a minted token with a byte of it altered: the signature no longer matches
Tampered(token) == [token EXCEPT !.sig = "bad"]

\* `not token`
falsy(token) == token.sig \in {"none", "empty"}

NoHeaders == "-"
BearerHeader == "WWW-Authenticate: Bearer"

HTTPException(status_code, detail, headers) ==
    [status |-> status_code, detail |-> detail, headers |-> headers, user |-> NoneStr]

\* a dependency that returns: the user row's email stands for the row
Returned(email) ==
    [status |-> 200, detail |-> "", headers |-> NoHeaders, user |-> email]

NoUser == [exists |-> FALSE]
UserRow(password_hash, is_active, is_verified) ==
    [exists |-> TRUE, password_hash |-> password_hash,
     is_active |-> is_active, is_verified |-> is_verified]

----------------------------------------------------------------------------
(* dependencies.py: the checkpoints.  db is the pair of tables the two     *)
(* selects read: bl the TokenBlacklist rows, us the User rows.             *)

\* get_current_user with the is_active check left out
get_current_user_skips_active_check(token, utcnow, bl, us) ==
    LET credentials_exception ==
            HTTPException(401, "Could not validate credentials", BearerHeader)
        payload == decode_token(token, utcnow)
        email == dict_get(payload, "sub")
    IN  IF falsy(token) THEN credentials_exception
        ELSE IF payload = None THEN credentials_exception
        ELSE IF dict_get(payload, "type") # "access"
             THEN HTTPException(401, "Invalid token type", NoHeaders)
        ELSE IF email = NoneStr THEN credentials_exception
        ELSE IF token \in bl
             THEN HTTPException(401, "Token has been revoked", NoHeaders)
        ELSE IF email \notin DOMAIN us \/ ~us[email].exists
             THEN credentials_exception
        ELSE Returned(email)

\* get_current_user with the blacklist lookup moved ahead of the type check
get_current_user_revocation_first(token, utcnow, bl, us) ==
    LET credentials_exception ==
            HTTPException(401, "Could not validate credentials", BearerHeader)
        payload == decode_token(token, utcnow)
        email == dict_get(payload, "sub")
    IN  IF falsy(token) THEN credentials_exception
        ELSE IF payload = None THEN credentials_exception
        ELSE IF token \in bl
             THEN HTTPException(401, "Token has been revoked", NoHeaders)
        ELSE IF dict_get(payload, "type") # "access"
             THEN HTTPException(401, "Invalid token type", NoHeaders)
        ELSE IF email = NoneStr THEN credentials_exception
        ELSE IF email \notin DOMAIN us \/ ~us[email].exists
             THEN credentials_exception
        ELSE IF ~us[email].is_active
             THEN HTTPException(403, "User account is inactive", NoHeaders)
        ELSE Returned(email)

get_current_user(token, utcnow, bl, us) ==
    LET credentials_exception ==
            HTTPException(401, "Could not validate credentials", BearerHeader)
        payload == decode_token(token, utcnow)
        email == dict_get(payload, "sub")
    IN  IF falsy(token) THEN credentials_exception
        ELSE IF payload = None THEN credentials_exception
        ELSE IF dict_get(payload, "type") # "access"
             THEN HTTPException(401, "Invalid token type", NoHeaders)
        ELSE IF email = NoneStr THEN credentials_exception
        ELSE IF token \in bl
             THEN HTTPException(401, "Token has been revoked", NoHeaders)
        ELSE IF email \notin DOMAIN us \/ ~us[email].exists
             THEN credentials_exception
        ELSE IF ~us[email].is_active
             THEN HTTPException(403, "User account is inactive", NoHeaders)
        ELSE Returned(email)

\* get_refresh_token_user with the blacklist lookup left out
get_refresh_token_user_skips_blacklist(token, utcnow, bl, us) ==
    LET credentials_exception ==
            HTTPException(401, "Could not validate refresh token", BearerHeader)
        payload == decode_token(token, utcnow)
        email == dict_get(payload, "sub")
    IN  IF falsy(token) THEN credentials_exception
        ELSE IF payload = None THEN credentials_exception
        ELSE IF dict_get(payload, "type") # "refresh"
             THEN HTTPException(401, "Invalid token type, expected refresh token",
                                NoHeaders)
        ELSE IF email = NoneStr THEN credentials_exception
        ELSE IF email \notin DOMAIN us \/ ~us[email].exists
             THEN credentials_exception
        ELSE Returned(email)

\* get_refresh_token_user with the is_active check of get_current_user added
get_refresh_token_user_checking_active(token, utcnow, bl, us) ==
    LET credentials_exception ==
            HTTPException(401, "Could not validate refresh token", BearerHeader)
        payload == decode_token(token, utcnow)
        email == dict_get(payload, "sub")
    IN  IF falsy(token) THEN credentials_exception
        ELSE IF payload = None THEN credentials_exception
        ELSE IF dict_get(payload, "type") # "refresh"
             THEN HTTPException(401, "Invalid token type, expected refresh token",
                                NoHeaders)
        ELSE IF email = NoneStr THEN credentials_exception
        ELSE IF token \in bl
             THEN HTTPException(401, "Refresh token has been revoked", NoHeaders)
        ELSE IF email \notin DOMAIN us \/ ~us[email].exists
             THEN credentials_exception
        ELSE IF ~us[email].is_active
             THEN HTTPException(403, "User account is inactive", NoHeaders)
        ELSE Returned(email)

get_refresh_token_user(token, utcnow, bl, us) ==
    LET credentials_exception ==
            HTTPException(401, "Could not validate refresh token", BearerHeader)
        payload == decode_token(token, utcnow)
        email == dict_get(payload, "sub")
    IN  IF falsy(token) THEN credentials_exception
        ELSE IF payload = None THEN credentials_exception
        ELSE IF dict_get(payload, "type") # "refresh"
             THEN HTTPException(401, "Invalid token type, expected refresh token",
                                NoHeaders)
        ELSE IF email = NoneStr THEN credentials_exception
        ELSE IF token \in bl
             THEN HTTPException(401, "Refresh token has been revoked", NoHeaders)
        ELSE IF email \notin DOMAIN us \/ ~us[email].exists
             THEN credentials_exception
        ELSE Returned(email)

\* the tables get_current_user selects from, in the order of its db.execute
\* calls: none before the token is decoded, of type access and carries a
\* subject; the User select only when no TokenBlacklist row was found
get_current_user_db_execute(token, utcnow, bl) ==
    LET payload == decode_token(token, utcnow)
    IN  IF falsy(token) THEN <<>>
        ELSE IF payload = None THEN <<>>
        ELSE IF dict_get(payload, "type") # "access" THEN <<>>
        ELSE IF dict_get(payload, "sub") = NoneStr THEN <<>>
        ELSE IF token \in bl THEN <<"TokenBlacklist">>
        ELSE <<"TokenBlacklist", "User">>

\* the same for get_refresh_token_user
get_refresh_token_user_db_execute(token, utcnow, bl) ==
    LET payload == decode_token(token, utcnow)
    IN  IF falsy(token) THEN <<>>
        ELSE IF payload = None THEN <<>>
        ELSE IF dict_get(payload, "type") # "refresh" THEN <<>>
        ELSE IF dict_get(payload, "sub") = NoneStr THEN <<>>
        ELSE IF token \in bl THEN <<"TokenBlacklist">>
        ELSE <<"TokenBlacklist", "User">>

\* Depends(get_current_user): its HTTPException ends the request before the
\* body of the dependent runs, so the request fails with that error
get_current_active_user(token, utcnow, bl, us) ==
    LET current_user == get_current_user(token, utcnow, bl, us)
    IN  IF current_user.status # 200 THEN current_user
        ELSE IF ~us[current_user.user].is_active
             THEN HTTPException(403, "Inactive user", NoHeaders)
        ELSE current_user

get_current_verified_user(token, utcnow, bl, us) ==
    LET current_user == get_current_user(token, utcnow, bl, us)
    IN  IF current_user.status # 200 THEN current_user
        ELSE IF ~us[current_user.user].is_verified
             THEN HTTPException(403, "Email not verified", NoHeaders)
        ELSE current_user

----------------------------------------------------------------------------
(* security.py: password hashing.  An argon2 hash verifies exactly the     *)
(* password it was made from.                                              *)

get_password_hash(password) == [scheme |-> "argon2", of |-> password]

verify_password(plain_password, hashed_password) ==
    hashed_password.of = plain_password

----------------------------------------------------------------------------
(* helpers.py: the cookies of a response *)

NoSetCookie == [set |-> FALSE]

\* set_auth_cookies with the refresh max_age converted as if from hours
set_auth_cookies_days_as_hours(access_token, refresh_token, cfg) ==
    [set |-> TRUE,
     access_token |-> [value |-> access_token,
                       max_age |-> cfg.ACCESS_TOKEN_EXPIRY * 60],
     refresh_token |-> [value |-> refresh_token,
                        max_age |-> cfg.REFRESH_TOKEN_EXPIRY * 60 * 60]]

\* set_auth_cookies with the second set_cookie call left out: the response
\* carries no refresh cookie
set_auth_cookies_access_only(access_token, refresh_token, cfg) ==
    [set |-> TRUE,
     access_token |-> [value |-> access_token,
                       max_age |-> cfg.ACCESS_TOKEN_EXPIRY * 60],
     refresh_token |-> [value |-> NoCookie, max_age |-> 0]]

set_auth_cookies(access_token, refresh_token, cfg) ==
    [set |-> TRUE,
     access_token |-> [value |-> access_token,
                       max_age |-> cfg.ACCESS_TOKEN_EXPIRY * 60],
     refresh_token |-> [value |-> refresh_token,
                        max_age |-> cfg.REFRESH_TOKEN_EXPIRY * 24 * 60 * 60]]

\* delete_cookie of both names: the response sets both to nothing, max-age 0
clear_auth_cookies ==
    [set |-> TRUE,
     access_token |-> [value |-> EmptyCookie, max_age |-> 0],
     refresh_token |-> [value |-> EmptyCookie, max_age |-> 0]]

----------------------------------------------------------------------------
(* services.py (not among the source files): modelled from the             *)
(* specification, section 4.3.  Each returns what it raises or returns and *)
(* the rows it leaves in the tables it writes.                             *)

\* mint one access and one refresh token bound to the identity, default TTLs
mint_pair(email, utcnow, cfg) ==
    [access |-> create_access_token([sub |-> email], NoDelta, utcnow, cfg),
     refresh |-> create_refresh_token([sub |-> email], NoDelta, utcnow, cfg)]

\* Revocation Store record(token): idempotent, keyed on the exact string
record_revoked(bl, token) == bl \cup {token}

register_user(email, password, utcnow, us, cfg) ==
    IF us[email].exists
    THEN [error |-> HTTPException(400, "Email already registered", NoHeaders),
          users |-> us]
    ELSE [error |-> None,
          users |-> [us EXCEPT ![email] =
                        UserRow(get_password_hash(password), TRUE, FALSE)],
          tokens |-> mint_pair(email, utcnow, cfg)]

login_user(email, password, utcnow, us, cfg) ==
    IF ~us[email].exists \/ ~verify_password(password, us[email].password_hash)
    THEN [error |-> HTTPException(401, "Invalid credentials", NoHeaders)]
    ELSE IF ~us[email].is_active
    THEN [error |-> HTTPException(403, "Account is inactive", NoHeaders)]
    ELSE [error |-> None, tokens |-> mint_pair(email, utcnow, cfg)]

\* record the presented refresh token as revoked, then mint a fresh pair for
\* the subject the token carries
refresh_access_token(refresh_token, utcnow, bl, cfg) ==
    [error |-> None,
     blacklist |-> record_revoked(bl, refresh_token),
     tokens |-> mint_pair(refresh_token.claims["sub"], utcnow, cfg)]

\* record the presented access token as revoked
logout_user(token, user, bl) == record_revoked(bl, token)

\* update_password: verify the current password, then store the new hash
update_password(user, current_password, new_password, us) ==
    IF ~us[user].exists
    THEN [error |-> HTTPException(500,
                       "An error occurred while processing your request.", NoHeaders),
          users |-> us]
    ELSE IF ~verify_password(current_password, us[user].password_hash)
    THEN [error |-> HTTPException(400, "Current password is incorrect", NoHeaders),
          users |-> us]
    ELSE [error |-> None,
          users |-> [us EXCEPT ![user].password_hash = get_password_hash(new_password)]]

NoReset == [exists |-> FALSE]

\* create_password_reset_link: persist a new secret bound to the identity,
\* with an expiry and used = false
create_password_reset_link(email, secret, utcnow, us, rs, cfg) ==
    IF ~us[email].exists
    THEN [error |-> HTTPException(404, "User not found", NoHeaders), resets |-> rs]
    ELSE [error |-> None,
          resets |-> [rs EXCEPT ![secret] =
                        [exists |-> TRUE, email |-> email, used |-> FALSE,
                         expires_at |-> utcnow
                            + timedelta_minutes(cfg.RESET_TOKEN_EXPIRY)]]]

\* resetting_password: fail if the secret is absent, expired or already used;
\* otherwise overwrite the user's password hash and mark the secret used
resetting_password(token, new_password, utcnow, us, rs) ==
    IF \/ token \notin DOMAIN rs
       \/ ~rs[token].exists
       \/ rs[token].used
       \/ rs[token].expires_at < utcnow
    THEN [error |-> HTTPException(400, "Invalid or expired reset token", NoHeaders),
          users |-> us, resets |-> rs]
    ELSE IF ~us[rs[token].email].exists
    THEN [error |-> HTTPException(404, "User not found", NoHeaders),
          users |-> us, resets |-> rs]
    ELSE [error |-> None,
          users |-> [us EXCEPT ![rs[token].email].password_hash =
                        get_password_hash(new_password)],
          resets |-> [rs EXCEPT ![token].used = TRUE]]

----------------------------------------------------------------------------
(* The state machine *)

Idle == [route |-> "idle"]

Response(route, status, detail, headers, set_cookie) ==
    [route |-> route, status |-> status, detail |-> detail,
     headers |-> headers, set_cookie |-> set_cookie]

\* an HTTPException leaving a route: no cookie is set on the error response
Raised(route, e) == Response(route, e.status, e.detail, e.headers, NoSetCookie)

\* the cookies a client can send: nothing, garbage, or a pair some response
\* has set, as set, with the two values exchanged, or with a byte altered
Jar(a, r) == [access_token |-> a, refresh_token |-> r]

RequestCookies ==
    {Jar(NoCookie, NoCookie), Jar(EmptyCookie, EmptyCookie), Jar(Malformed, Malformed)}
    \cup {Jar(j.access_token.value, j.refresh_token.value) : j \in issued}
    \cup {Jar(j.refresh_token.value, j.access_token.value) : j \in issued}
    \cup {Jar(Tampered(j.access_token.value), Tampered(j.refresh_token.value)) :
            j \in issued}

\* the representative amounts by which the clock advances: one tick, and to
\* the second after a default access or refresh lifetime has gone by
ClockSteps ==
    {1, timedelta_minutes(settings.ACCESS_TOKEN_EXPIRY) + timedelta_seconds(1),
     timedelta_days(settings.REFRESH_TOKEN_EXPIRY) + timedelta_seconds(1)}

FreeSlots == {i \in DOMAIN inflight : inflight[i] = Idle}
\* a request past its dependency takes the lowest free slot
NextSlot == CHOOSE i \in FreeSlots : \A k \in FreeSlots : i <= k

Settings ==
    [ACCESS_TOKEN_EXPIRY : 1..MaxExpirySetting,
     REFRESH_TOKEN_EXPIRY : 1..MaxExpirySetting,
     RESET_TOKEN_EXPIRY : {1}]

NoHistory ==
    [loggedOut |-> {}, rotations |-> <<>>, resetDone |-> {}, minted |-> {},
     refreshedAfterLogout |-> {}, refreshedInactive |-> {}]

InitWith(cfg) ==
    /\ now = 0
    /\ advances = 0
    /\ requests = 0
    /\ settings = cfg
    /\ users = [e \in Emails |-> NoUser]
    /\ blacklist = {}
    /\ resets = [s \in ResetSecrets |-> NoReset]
    /\ issued = {}
    /\ inflight = [i \in 1..MaxInflight |-> Idle]
    /\ last = Response("none", 0, "", NoHeaders, NoSetCookie)
    /\ hist = NoHistory

\* a request arrives: the model counts them up to its bound
Received ==
    /\ requests < MaxRequests
    /\ requests' = requests + 1

\* the session machine starts with every default lifetime at one unit
Init == InitWith([ACCESS_TOKEN_EXPIRY |-> 1, REFRESH_TOKEN_EXPIRY |-> 1,
                 RESET_TOKEN_EXPIRY |-> 1])

Advance(d) ==
    /\ advances < MaxAdvances
    /\ now' = now + d
    /\ advances' = advances + 1
    /\ UNCHANGED <<requests, settings, users, blacklist, resets, issued, inflight, last, hist>>

(* routes.py.  A route with a Depends(...) checkpoint runs in two steps,   *)
(* the dependency and then the body; other requests run in between.        *)

register(email, password) ==
    /\ LET r == register_user(email, password, now, users, settings)
           cookies == set_auth_cookies(r.tokens.access, r.tokens.refresh, settings)
       IN  IF r.error # None
           THEN /\ last' = Raised("register", r.error)
                /\ UNCHANGED <<users, issued>>
           ELSE /\ users' = r.users
                /\ issued' = issued \cup {cookies}
                /\ last' = Response("register", 201, "Registration successful",
                                    NoHeaders, cookies)
    /\ Received
    /\ UNCHANGED <<now, advances, settings, blacklist, resets, inflight, hist>>

login(email, password) ==
    /\ LET r == login_user(email, password, now, users, settings)
           cookies == set_auth_cookies(r.tokens.access, r.tokens.refresh, settings)
       IN  IF r.error # None
           THEN /\ last' = Raised("login", r.error)
                /\ UNCHANGED issued
           ELSE /\ issued' = issued \cup {cookies}
                /\ last' = Response("login", 200, "Login successful", NoHeaders,
                                    cookies)
    /\ Received
    /\ UNCHANGED <<now, advances, settings, users, blacklist, resets, inflight, hist>>

\* Depends(get_current_user) or Depends(get_refresh_token_user) of a route:
\* an error ends the request, a returned user lets the body run later
dependency(route, dep, cookies) ==
    IF dep.status # 200
    THEN /\ last' = Raised(route, dep)
         /\ UNCHANGED inflight
    ELSE /\ FreeSlots # {}
         /\ inflight' = [inflight EXCEPT ![NextSlot] =
                            [route |-> route, cookies |-> cookies, user |-> dep.user]]
         /\ UNCHANGED last

\* hist.refreshedAfterLogout: the refresh tokens the checkpoint let pass when
\* the access token sent along had been logged out; hist.refreshedInactive:
\* those it let pass when their user was inactive
refresh_token_dependency(cookies) ==
    LET dep == get_refresh_token_user(cookies.refresh_token, now, blacklist, users)
    IN  /\ dependency("refresh", dep, cookies)
        /\ hist' = IF dep.status # 200 THEN hist
                   ELSE [hist EXCEPT
                            !.refreshedAfterLogout =
                                IF cookies.access_token \in hist.loggedOut
                                THEN @ \cup {cookies.refresh_token} ELSE @,
                            !.refreshedInactive =
                                IF ~users[dep.user].is_active
                                THEN @ \cup {cookies.refresh_token} ELSE @]
        /\ Received
        /\ UNCHANGED <<now, advances, settings, users, blacklist, resets, issued>>

\* refresh_token hardened with a conditional write: revoke if not yet revoked,
\* else reject
refresh_token_revoke_if_absent(i) ==
    /\ inflight[i].route = "refresh"
    /\ LET presented == inflight[i].cookies.refresh_token
           r == refresh_access_token(presented, now, blacklist, settings)
           cookies == set_auth_cookies(r.tokens.access, r.tokens.refresh, settings)
       IN  IF presented \in blacklist
           THEN /\ last' = Raised("refresh",
                       HTTPException(401, "Refresh token has been revoked", NoHeaders))
                /\ UNCHANGED <<blacklist, issued, hist>>
           ELSE /\ blacklist' = r.blacklist
                /\ issued' = issued \cup {cookies}
                /\ last' = Response("refresh", 200, "Tokens refreshed successfully",
                                    NoHeaders, cookies)
                /\ hist' = [hist EXCEPT !.rotations = Append(@,
                               [presented |-> presented, access |-> r.tokens.access,
                                refresh |-> r.tokens.refresh,
                                revokedBefore |-> FALSE])]
    /\ inflight' = [inflight EXCEPT ![i] = Idle]
    /\ UNCHANGED <<requests, now, advances, settings, users, resets>>

refresh_token(i) ==
    /\ inflight[i].route = "refresh"
    /\ LET presented == inflight[i].cookies.refresh_token
           r == refresh_access_token(presented, now, blacklist, settings)
           cookies == set_auth_cookies(r.tokens.access, r.tokens.refresh, settings)
       IN  /\ blacklist' = r.blacklist
           /\ issued' = issued \cup {cookies}
           /\ last' = Response("refresh", 200, "Tokens refreshed successfully",
                               NoHeaders, cookies)
           /\ hist' = [hist EXCEPT !.rotations = Append(@,
                          [presented |-> presented, access |-> r.tokens.access,
                           refresh |-> r.tokens.refresh,
                           revokedBefore |-> presented \in blacklist])]
    /\ inflight' = [inflight EXCEPT ![i] = Idle]
    /\ UNCHANGED <<requests, now, advances, settings, users, resets>>

\* logout without its Depends(get_current_user): every request reaches the body
logout_dependency_unguarded(cookies) ==
    /\ dependency("logout", Returned(NoneStr), cookies)
    /\ Received
    /\ UNCHANGED <<now, advances, settings, users, blacklist, resets, issued, hist>>

logout_dependency(cookies) ==
    /\ dependency("logout",
                  get_current_user(cookies.access_token, now, blacklist, users),
                  cookies)
    /\ Received
    /\ UNCHANGED <<now, advances, settings, users, blacklist, resets, issued, hist>>

\* logout passing both cookie values to the revocation step
logout_revoking_both(i) ==
    /\ inflight[i].route = "logout"
    /\ LET token == inflight[i].cookies.access_token
           refresh == inflight[i].cookies.refresh_token
       IN  IF ~falsy(token)
           THEN /\ blacklist' = logout_user(refresh, inflight[i].user,
                                    logout_user(token, inflight[i].user, blacklist))
                /\ hist' = [hist EXCEPT !.loggedOut = @ \cup {token}]
           ELSE UNCHANGED <<blacklist, hist>>
    /\ last' = Response("logout", 200, "Successfully logged out", NoHeaders,
                        clear_auth_cookies)
    /\ inflight' = [inflight EXCEPT ![i] = Idle]
    /\ UNCHANGED <<requests, now, advances, settings, users, resets, issued>>

\* logout with the call of logout_user left out
logout_without_revoking(i) ==
    /\ inflight[i].route = "logout"
    /\ hist' = [hist EXCEPT !.loggedOut = @ \cup {inflight[i].cookies.access_token}]
    /\ last' = Response("logout", 200, "Successfully logged out", NoHeaders,
                        clear_auth_cookies)
    /\ inflight' = [inflight EXCEPT ![i] = Idle]
    /\ UNCHANGED <<requests, now, advances, settings, users, blacklist, resets, issued>>

logout(i) ==
    /\ inflight[i].route = "logout"
    /\ LET token == inflight[i].cookies.access_token
       IN  IF ~falsy(token)
           THEN /\ blacklist' = logout_user(token, inflight[i].user, blacklist)
                /\ hist' = [hist EXCEPT !.loggedOut = @ \cup {token}]
           ELSE UNCHANGED <<blacklist, hist>>
    /\ last' = Response("logout", 200, "Successfully logged out", NoHeaders,
                        clear_auth_cookies)
    /\ inflight' = [inflight EXCEPT ![i] = Idle]
    /\ UNCHANGED <<requests, now, advances, settings, users, resets, issued>>

change_password_dependency(cookies) ==
    /\ dependency("change_password",
                  get_current_user(cookies.access_token, now, blacklist, users),
                  cookies)
    /\ Received
    /\ UNCHANGED <<now, advances, settings, users, blacklist, resets, issued, hist>>

change_password(i, current_password, new_password) ==
    /\ inflight[i].route = "change_password"
    /\ LET r == update_password(inflight[i].user, current_password, new_password,
                                users)
       IN  /\ users' = r.users
           /\ last' = IF r.error # None
                      THEN Raised("change_password", r.error)
                      ELSE Response("change_password", 200,
                                    "Password changed successfully", NoHeaders,
                                    NoSetCookie)
    /\ inflight' = [inflight EXCEPT ![i] = Idle]
    /\ UNCHANGED <<requests, now, advances, settings, blacklist, resets, issued, hist>>

\* secrets.token_urlsafe(32): a secret no earlier call has returned
forgot_password(email, secret) ==
    /\ ~resets[secret].exists
    /\ LET r == create_password_reset_link(email, secret, now, users, resets, settings)
       IN  /\ resets' = r.resets
           /\ last' = IF r.error # None
                      THEN Raised("forgot_password", r.error)
                      ELSE Response("forgot_password", 200,
                               "If the email exists, a password reset link has been sent.",
                               NoHeaders, NoSetCookie)
    /\ Received
    /\ UNCHANGED <<now, advances, settings, users, blacklist, issued, inflight, hist>>

\* the route's try/except: an HTTPException of the service is re-raised as
\* it is, any other exception becomes a 500; the service raises no other
\* reset_password with the HTTPException of the service swallowed
reset_password_route_swallowing(token, new_password, utcnow, us, rs) ==
    LET r == resetting_password(token, new_password, utcnow, us, rs)
    IN  [response |-> Response("reset_password", 200, "Password reset successfully",
                               NoHeaders, NoSetCookie),
         users |-> r.users,
         resets |-> r.resets]

reset_password_route(token, new_password, utcnow, us, rs) ==
    LET r == resetting_password(token, new_password, utcnow, us, rs)
    IN  [response |-> IF r.error # None
                      THEN Raised("reset_password", r.error)
                      ELSE Response("reset_password", 200,
                                    "Password reset successfully", NoHeaders,
                                    NoSetCookie),
         users |-> r.users,
         resets |-> r.resets]

reset_password(token, new_password) ==
    /\ LET r == reset_password_route(token, new_password, now, users, resets)
       IN  /\ users' = r.users
           /\ resets' = r.resets
           /\ last' = r.response
           /\ hist' = IF r.response.status = 200
                      THEN [hist EXCEPT !.resetDone = @ \cup {token}]
                      ELSE hist
    /\ Received
    /\ UNCHANGED <<now, advances, settings, blacklist, issued, inflight>>

(* The User subsystem, outside this package, owns the rows: it deactivates *)
(* and removes users.                                                      *)

deactivate_user(email) ==
    /\ users[email].exists
    /\ users[email].is_active
    /\ users' = [users EXCEPT ![email].is_active = FALSE]
    /\ Received
    /\ UNCHANGED <<now, advances, settings, blacklist, resets, issued, inflight, last, hist>>

delete_user(email) ==
    /\ users[email].exists
    /\ users' = [users EXCEPT ![email] = NoUser]
    /\ Received
    /\ UNCHANGED <<now, advances, settings, blacklist, resets, issued, inflight, last, hist>>

Next ==
    \/ \E d \in ClockSteps : Advance(d)
    \/ \E e \in Emails, p \in Passwords : register(e, p)
    \/ \E e \in Emails, p \in Passwords : login(e, p)
    \/ \E c \in RequestCookies : refresh_token_dependency(c)
    \/ \E i \in DOMAIN inflight : refresh_token(i)
    \/ \E c \in RequestCookies : logout_dependency(c)
    \/ \E i \in DOMAIN inflight : logout(i)
    \/ \E c \in RequestCookies : change_password_dependency(c)
    \/ \E i \in DOMAIN inflight, p \in Passwords, q \in Passwords :
            change_password(i, p, q)
    \/ \E e \in Emails, s \in ResetSecrets : forgot_password(e, s)
    \/ \E s \in ResetSecrets \cup {0}, p \in Passwords : reset_password(s, p)
    \/ \E e \in Emails : deactivate_user(e)
    \/ \E e \in Emails : delete_user(e)

Spec == Init /\ [][Next]_vars

----------------------------------------------------------------------------
(* The codec on its own: calls of create_access_token and                  *)
(* create_refresh_token with any data mapping and any expires_delta, under *)
(* every configuration, while the clock ticks.  hist.minted holds the      *)
(* latest call: its arguments, the clock at the call, the token and the    *)
(* caller's data mapping after the call.                                   *)

InitAnySettings == \E cfg \in Settings : InitWith(cfg)

Tick ==
    /\ now < MaxCodecTicks
    /\ now' = now + 1
    /\ UNCHANGED <<advances, requests, settings, users, blacklist, resets, issued,
                   inflight, last, hist>>

CodecData ==
    {[sub |-> e] : e \in Emails}
    \cup {[sub |-> e, type |-> ty, exp |-> 0] : e \in Emails, ty \in {"access", "refresh"}}

\* no expires_delta, or one of zero or more ticks
CodecDeltas == {NoDelta} \cup {Delta(d) : d \in 0..MaxDelta}

Minted(kind, data, expires_delta, call) ==
    [kind |-> kind, data |-> data, expires_delta |-> expires_delta, at |-> now,
     token |-> call.returned, data_after |-> call.data]

call_create_access_token(data, expires_delta) ==
    /\ hist' = [hist EXCEPT !.minted =
                    {Minted("access", data, expires_delta,
                            create_access_token_call(data, expires_delta, now,
                                                     settings))}]
    /\ UNCHANGED <<now, advances, requests, settings, users, blacklist, resets,
                   issued, inflight, last>>

call_create_refresh_token(data, expires_delta) ==
    /\ hist' = [hist EXCEPT !.minted =
                    {Minted("refresh", data, expires_delta,
                            create_refresh_token_call(data, expires_delta, now,
                                                      settings))}]
    /\ UNCHANGED <<now, advances, requests, settings, users, blacklist, resets,
                   issued, inflight, last>>

NextCodec ==
    \/ Tick
    \/ \E data \in CodecData, delta \in CodecDeltas :
            call_create_access_token(data, delta)
    \/ \E data \in CodecData, delta \in CodecDeltas :
            call_create_refresh_token(data, delta)

SpecCodec == InitAnySettings /\ [][NextCodec]_vars

(* The routes that set the auth cookies, under every configuration. *)

NextCookies ==
    \/ Tick
    \/ \E e \in Emails, p \in Passwords : register(e, p)
    \/ \E e \in Emails, p \in Passwords : login(e, p)
    \/ \E c \in RequestCookies : refresh_token_dependency(c)
    \/ \E i \in DOMAIN inflight : refresh_token(i)

SpecCookies == InitAnySettings /\ [][NextCookies]_vars

(* The three access dependencies on their own: any user row, verified or   *)
(* not, active or not, any blacklist over the tokens minted at the start,  *)
(* and a clock that advances.  last holds the latest call and its result.  *)

DefaultSettings ==
    [ACCESS_TOKEN_EXPIRY |-> 1, REFRESH_TOKEN_EXPIRY |-> 1, RESET_TOKEN_EXPIRY |-> 1]

\* the tokens minted at the start for each identity: the ones a logout or a
\* refresh can have recorded
MintedAtStart ==
    UNION {{create_access_token([sub |-> e], NoDelta, 0, DefaultSettings),
            create_refresh_token([sub |-> e], NoDelta, 0, DefaultSettings)} :
           e \in Emails}

\* an access token whose data carries no subject
NoSubjectToken == create_access_token(<<>>, NoDelta, 0, DefaultSettings)

DependencyTokens ==
    {NoCookie, EmptyCookie, Malformed, NoSubjectToken} \cup MintedAtStart
    \cup {Tampered(t) : t \in MintedAtStart}

UserRows ==
    {NoUser} \cup {UserRow(get_password_hash(p), a, v) :
                      p \in {"pw1"}, a \in BOOLEAN, v \in BOOLEAN}

InitDependencies ==
    /\ now = 0
    /\ advances = 0
    /\ requests = 0
    /\ settings = DefaultSettings
    /\ users \in [Emails -> UserRows]
    /\ blacklist \in SUBSET MintedAtStart
    /\ resets = [s \in ResetSecrets |-> NoReset]
    /\ issued = {}
    /\ inflight = [i \in 1..MaxInflight |-> Idle]
    /\ last = Response("none", 0, "", NoHeaders, NoSetCookie)
    /\ hist = NoHistory

Called(dependency_name, token, result) ==
    /\ last' = [dependency |-> dependency_name, token |-> token, result |-> result]
    /\ UNCHANGED <<now, advances, requests, settings, users, blacklist, resets,
                   issued, inflight, hist>>

call_get_current_user(token) ==
    Called("get_current_user", token,
           get_current_user(token, now, blacklist, users))

call_get_current_active_user(token) ==
    Called("get_current_active_user", token,
           get_current_active_user(token, now, blacklist, users))

call_get_current_verified_user(token) ==
    Called("get_current_verified_user", token,
           get_current_verified_user(token, now, blacklist, users))

NextDependencies ==
    \/ \E d \in ClockSteps : Advance(d)
    \/ \E t \in DependencyTokens : call_get_current_user(t)
    \/ \E t \in DependencyTokens : call_get_current_active_user(t)
    \/ \E t \in DependencyTokens : call_get_current_verified_user(t)

SpecDependencies == InitDependencies /\ [][NextDependencies]_vars

----------------------------------------------------------------------------
(* Properties *)

\* every cookie value a request can carry in the current state
PresentableTokens == UNION {{c.access_token, c.refresh_token} : c \in RequestCookies}

WellSigned(t) == t.sig = "ok"
Unexpired(t) == t.claims["exp"] >= timegm(now)
UserOf(t) == users[t.claims["sub"]]

CredentialsError == HTTPException(401, "Could not validate credentials", BearerHeader)
RevokedError == HTTPException(401, "Token has been revoked", NoHeaders)
RefreshCredentialsError ==
    HTTPException(401, "Could not validate refresh token", BearerHeader)
RefreshRevokedError == HTTPException(401, "Refresh token has been revoked", NoHeaders)

AccessCheck(t) == get_current_user(t, now, blacklist, users)
RefreshCheck(t) == get_refresh_token_user(t, now, blacklist, users)

\* the conditions C1 lists, read off the token and the tables
AccessConditions(t) ==
    /\ ~falsy(t)
    /\ WellSigned(t)
    /\ Unexpired(t)
    /\ "type" \in DOMAIN t.claims /\ t.claims["type"] = "access"
    /\ "sub" \in DOMAIN t.claims
    /\ t \notin blacklist
    /\ t.claims["sub"] \in DOMAIN users
    /\ UserOf(t).exists
    /\ UserOf(t).is_active

\* C1: get_current_user returns a user only for a cookie token that is present,
\* decodes, has type access, carries a subject, is not blacklisted and whose
\* subject is an existing active user, and then the user of that subject; in
\* every other case it raises an error and returns no user.
C1_AccessCheckpointConditions ==
    \A t \in PresentableTokens :
        LET r == AccessCheck(t)
        IN  /\ r.status = 200 => AccessConditions(t) /\ r.user = t.claims["sub"]
            /\ ~AccessConditions(t) => r.status \in {401, 403} /\ r.user = NoneStr

\* a request is past the access checkpoint with a token meeting the conditions
C1_Witness ==
    \E i \in DOMAIN inflight :
        /\ inflight[i].route \in {"logout", "change_password"}
        /\ AccessConditions(inflight[i].cookies.access_token)
        /\ inflight[i].user = inflight[i].cookies.access_token.claims["sub"]

\* C2 as stated: once logout has recorded access token T, the access checkpoint
\* answers every presentation of T with 401 "Token has been revoked".
C2_AlwaysRevokedOutcome ==
    \A t \in hist.loggedOut : AccessCheck(t) = RevokedError

\* C2 as amended: once logout has recorded access token T, the access checkpoint
\* rejects every presentation of T: with 401 "Token has been revoked" while T is
\* within its lifetime, whatever its user's state, and with 401 "Could not
\* validate credentials" once T has expired.
C2_RevokedAfterLogout ==
    \A t \in hist.loggedOut :
        /\ Unexpired(t) => AccessCheck(t) = RevokedError
        /\ ~Unexpired(t) => AccessCheck(t) = CredentialsError

\* a logged-out token, still within its lifetime and of an active user, has
\* been presented again and was answered as revoked
C2_Witness ==
    /\ \E t \in hist.loggedOut :
          Unexpired(t) /\ UserOf(t).exists /\ UserOf(t).is_active
    /\ last = Raised("change_password", RevokedError)

WrongTypeError == HTTPException(401, "Invalid token type", NoHeaders)
RefreshWrongTypeError ==
    HTTPException(401, "Invalid token type, expected refresh token", NoHeaders)

Rotations == hist.rotations

\* C3 as stated: after a refresh that presented R and returned R', R is answered
\* as revoked by the refresh checkpoint, and R' is accepted exactly once: while
\* it has not been accepted since it was issued the checkpoint accepts it, and
\* once it has been, the checkpoint answers revoked and no second refresh of it
\* completes.  (Stated for tokens within their lifetime and an existing user.)
C3_RotatedTokenSingleUse ==
    \A k \in DOMAIN Rotations :
        LET rot == Rotations[k]
            later == {j \in DOMAIN Rotations :
                        j > k /\ Rotations[j].presented = rot.refresh}
        IN  /\ Unexpired(rot.presented) =>
                    RefreshCheck(rot.presented) = RefreshRevokedError
            /\ Cardinality(later) <= 1
            /\ (later = {} /\ Unexpired(rot.refresh) /\ UserOf(rot.refresh).exists)
                    => RefreshCheck(rot.refresh).status = 200
            /\ (later # {} /\ Unexpired(rot.refresh))
                    => RefreshCheck(rot.refresh) = RefreshRevokedError

\* what either checkpoint answers for a blacklisted token
BlacklistedRejected(t) ==
    /\ AccessCheck(t).status # 200
    /\ RefreshCheck(t).status # 200
    /\ (Unexpired(t) /\ t.claims["type"] = "access") => AccessCheck(t) = RevokedError
    /\ (Unexpired(t) /\ t.claims["type"] = "refresh")
            => RefreshCheck(t) = RefreshRevokedError

\* C4: no step removes or alters a blacklist record, and after every step each
\* recorded token is rejected by both checkpoints, by the blacklist lookup
\* whenever the checkpoint gets as far as the lookup.
C4_RevocationPermanent ==
    [][\A t \in blacklist : t \in blacklist' /\ BlacklistedRejected(t)']_vars

\* an access and a refresh token are recorded and a checkpoint has just
\* answered a presentation as revoked
C4_Witness ==
    /\ \E t \in blacklist : t.claims["type"] = "access"
    /\ \E t \in blacklist : t.claims["type"] = "refresh"
    /\ \E route \in {"logout", "change_password", "refresh"} :
          last \in {Raised(route, RevokedError), Raised(route, RefreshRevokedError)}

\* C5: a token minted by create_refresh_token is never accepted by the access
\* checkpoint and a token minted by create_access_token is never accepted by
\* the refresh checkpoint: within its lifetime it is answered with the wrong
\* type error, after it with the credentials error, whatever the blacklist and
\* the user's row hold.
C5_TypesNotInterchangeable ==
    \A j \in issued :
        LET a == j.access_token.value
            r == j.refresh_token.value
        IN  /\ AccessCheck(r) = IF Unexpired(r) THEN WrongTypeError ELSE CredentialsError
            /\ RefreshCheck(a) = IF Unexpired(a) THEN RefreshWrongTypeError
                                 ELSE RefreshCredentialsError

\* a refresh token was sent as the access cookie and answered with the wrong
\* type error, while some issued refresh token is blacklisted
C5_Witness ==
    /\ last = Raised("logout", WrongTypeError)
    /\ \E j \in issued : j.refresh_token.value \in blacklist

\* C6: the refresh body does not look at the blacklist again: every refresh
\* request that passed the checkpoint completes by recording its token and
\* issuing a new pair, also when another request has recorded the same token
\* in between.
C6_RefreshNotAtomic ==
    [][\A i \in DOMAIN inflight :
          (inflight[i].route = "refresh" /\ inflight'[i] = Idle) =>
              /\ last'.route = "refresh" /\ last'.status = 200
              /\ last'.set_cookie \in issued'
              /\ inflight[i].cookies.refresh_token \in blacklist'
              /\ Len(Rotations') = Len(Rotations) + 1]_vars

\* two requests presented the same refresh token, both passed the checkpoint
\* before either recorded it, and both were issued a pair
C6_Witness ==
    \E j, k \in DOMAIN Rotations :
        /\ j < k
        /\ Rotations[j].presented = Rotations[k].presented
        /\ ~Rotations[j].revokedBefore
        /\ Rotations[k].revokedBefore

\* a presented token that cannot be decoded: garbage, a signature that does
\* not match, or an expiry in the past
Undecodable(t) ==
    /\ ~falsy(t)
    /\ \/ t.sig \in {"bad", "malformed"}
       \/ t.sig = "ok" /\ ~Unexpired(t)

UniformFailure ==
    \A t \in PresentableTokens :
        Undecodable(t) =>
            /\ decode_token(t, now) = None
            /\ AccessCheck(t) = CredentialsError
            /\ RefreshCheck(t) = RefreshCredentialsError

CheckpointCredentialsErrors ==
    {Raised("logout", CredentialsError), Raised("change_password", CredentialsError),
     Raised("refresh", RefreshCredentialsError)}

\* C8: whatever makes decoding fail, decode_token returns None and each
\* checkpoint answers with its one credentials error (same status, detail and
\* headers), and a request answered so changes no table.
C8_UniformFailureMode ==
    [][/\ UniformFailure'
       /\ (last' # last /\ last' \in CheckpointCredentialsErrors)
             => UNCHANGED <<users, blacklist, resets, issued, inflight>>]_vars

\* a checkpoint has answered with its credentials error while an expired token
\* with a valid signature, a tampered token and garbage can all be presented
C8_Witness ==
    /\ last = Raised("logout", CredentialsError)
    /\ \E t \in PresentableTokens : t.sig = "ok" /\ ~Unexpired(t)
    /\ \E t \in PresentableTokens : t.sig = "bad"
    /\ \E t \in PresentableTokens : t.sig = "malformed"

InvalidResetError ==
    Raised("reset_password",
           HTTPException(400, "Invalid or expired reset token", NoHeaders))

\* C9: after a successful reset_password with secret S, reset_password with S
\* and any new password answers invalid-or-expired and leaves the user rows,
\* and so every password hash, as they are.
C9_ResetSecretSingleUse ==
    \A s \in hist.resetDone : \A p \in Passwords :
        LET r == reset_password_route(s, p, now, users, resets)
        IN  /\ r.response = InvalidResetError
            /\ r.users = users
            /\ r.resets = resets

\* a consumed secret exists, its user still does, and a reset has just been
\* answered invalid-or-expired
C9_Witness ==
    /\ \E s \in hist.resetDone :
          users[resets[s].email].exists /\ resets[s].expires_at >= now
    /\ last = InvalidResetError

\* the lifetime a call asked for: its expires_delta, or the configured default
RequestedTtl(m) ==
    IF m.expires_delta # NoDelta THEN m.expires_delta[1]
    ELSE IF m.kind = "access" THEN timedelta_minutes(settings.ACCESS_TOKEN_EXPIRY)
    ELSE timedelta_days(settings.REFRESH_TOKEN_EXPIRY)

\* C7 as stated: decode_token of a minted token returns the subject and the
\* type of the call while the clock has not passed the clock at the call plus
\* the ttl, and None at every clock value after it.
C7_MintVerifyRoundTrip ==
    \A m \in hist.minted :
        LET payload == decode_token(m.token, now)
        IN  IF now <= m.at + RequestedTtl(m)
            THEN /\ payload # None
                 /\ dict_get(payload, "sub") = m.data["sub"]
                 /\ dict_get(payload, "type") = m.kind
            ELSE payload = None

\* C10: a response that sets the auth cookies for a pair minted with the
\* default TTLs gives each cookie a max-age, in seconds, equal to its token's
\* expiry minus the second of minting: ACCESS_TOKEN_EXPIRY minutes for the
\* access cookie, REFRESH_TOKEN_EXPIRY days for the refresh cookie.
C10_CookieMaxAgeIsTokenLifetime ==
    [][\A j \in issued' \ issued :
          /\ j.access_token.max_age
                = j.access_token.value.claims["exp"] - timegm(now)
          /\ j.access_token.max_age = settings.ACCESS_TOKEN_EXPIRY * 60
          /\ j.refresh_token.max_age
                = j.refresh_token.value.claims["exp"] - timegm(now)
          /\ j.refresh_token.max_age = settings.REFRESH_TOKEN_EXPIRY * 86400]_vars

\* cookies have been set for pairs minted in two different seconds, one of
\* them off the second boundary, with default TTLs other than one unit
C10_Witness ==
    /\ Cardinality(issued) >= 2
    /\ now % TicksPerSecond # 0
    /\ last.set_cookie \in issued
    /\ settings.ACCESS_TOKEN_EXPIRY > 1
    /\ settings.REFRESH_TOKEN_EXPIRY > 1

InactiveError == HTTPException(403, "User account is inactive", NoHeaders)

\* the type claim of a token that decodes
TypeOf(t) == dict_get(t.claims, "type")

\* the step of the checkpoint sequence at which a token fails first, read off
\* the token and the tables
FirstFailure(t, expected) ==
    IF falsy(t) \/ ~WellSigned(t) \/ ~Unexpired(t) THEN "decode"
    ELSE IF TypeOf(t) # expected THEN "type"
    ELSE IF t \in blacklist THEN "revocation"
    ELSE IF ~UserOf(t).exists THEN "user"
    ELSE IF ~UserOf(t).is_active THEN "active"
    ELSE "none"

\* C11: each checkpoint reports the error of the earliest failing step of
\* decode, type check, revocation lookup, user lookup, active check: a
\* blacklisted token of the wrong type gets the wrong-type error, a blacklisted
\* token of an inactive or absent user the revoked error; the TokenBlacklist
\* select runs only for a token that decoded and has the expected type, always
\* ahead of the User select, and never for an undecodable token.
C11_CheckpointOrder ==
    \A t \in PresentableTokens :
        LET a == FirstFailure(t, "access")
            r == FirstFailure(t, "refresh")
            aq == get_current_user_db_execute(t, now, blacklist)
            rq == get_refresh_token_user_db_execute(t, now, blacklist)
        IN  /\ a = "decode" => AccessCheck(t) = CredentialsError /\ aq = <<>>
            /\ a = "type" => AccessCheck(t) = WrongTypeError /\ aq = <<>>
            /\ a = "revocation" =>
                    AccessCheck(t) = RevokedError /\ aq = <<"TokenBlacklist">>
            /\ a = "user" => AccessCheck(t) = CredentialsError
                             /\ aq = <<"TokenBlacklist", "User">>
            /\ a = "active" => AccessCheck(t) = InactiveError
                               /\ aq = <<"TokenBlacklist", "User">>
            /\ r = "decode" => RefreshCheck(t) = RefreshCredentialsError /\ rq = <<>>
            /\ r = "type" => RefreshCheck(t) = RefreshWrongTypeError /\ rq = <<>>
            /\ r = "revocation" =>
                    RefreshCheck(t) = RefreshRevokedError /\ rq = <<"TokenBlacklist">>
            /\ r = "user" => RefreshCheck(t) = RefreshCredentialsError
                             /\ rq = <<"TokenBlacklist", "User">>

\* a checkpoint has answered revoked while every blacklisted token fails a
\* later step too (its user is absent or inactive), one of them an access
\* token within its lifetime, and a blacklisted token can be presented to the
\* checkpoint of the other type
C11_Witness ==
    /\ last = Raised("change_password", RevokedError)
    /\ \A t \in blacklist : ~(UserOf(t).exists /\ UserOf(t).is_active)
    /\ \E t \in blacklist \cap PresentableTokens :
          TypeOf(t) = "access" /\ Unexpired(t)
          /\ FirstFailure(t, "refresh") = "type"

\* C12 as stated: a token minted with an expires_delta, a zero one included,
\* expires at the clock of the call plus that ttl (in the whole seconds of the
\* exp claim), and one minted without it at the clock of the call plus the
\* configured default.
C12_ExplicitTtlHonoured ==
    \A m \in hist.minted :
        m.token.claims["exp"] = timegm(m.at + RequestedTtl(m))

\* a data mapping without the keys the mint functions write
WithoutMintKeys(data) == [k \in (DOMAIN data) \ {"type", "exp"} |-> data[k]]

TokenOf(kind, data, expires_delta, utcnow) ==
    IF kind = "access"
    THEN create_access_token(data, expires_delta, utcnow, settings)
    ELSE create_refresh_token(data, expires_delta, utcnow, settings)

\* C13: whatever the data mapping, also one with type or exp keys, the token
\* of create_access_token has type access and that of create_refresh_token
\* type refresh, its expiry is the one the function computes (that of the
\* token minted from the mapping without those keys), its other claims are the
\* caller's, and the caller's mapping is after the call what it was before.
C13_TypeAndExpiryFixedByMint ==
    \A m \in hist.minted :
        /\ m.token = TokenOf(m.kind, m.data, m.expires_delta, m.at)
        /\ TypeOf(m.token) = m.kind
        /\ m.token = TokenOf(m.kind, WithoutMintKeys(m.data), m.expires_delta, m.at)
        /\ m.token.claims["exp"] >= timegm(m.at)
        /\ m.token.claims["sub"] = m.data["sub"]
        /\ m.data_after = m.data

\* a mint function was called after the clock moved with a mapping that
\* carries the other type and an expiry in the past
C13_Witness ==
    \E m \in hist.minted :
        /\ "type" \in DOMAIN m.data /\ m.data["type"] # m.kind
        /\ "exp" \in DOMAIN m.data /\ m.data["exp"] < timegm(m.at)

CookieRoutes == {"register", "login", "refresh"}

\* a response sets both auth cookies, each to a token of its type
SetsPair(set_cookie) ==
    /\ set_cookie.set
    /\ WellSigned(set_cookie.access_token.value)
    /\ TypeOf(set_cookie.access_token.value) = "access"
    /\ WellSigned(set_cookie.refresh_token.value)
    /\ TypeOf(set_cookie.refresh_token.value) = "refresh"

\* C14: a response of register, login or refresh sets the access cookie and
\* the refresh cookie together when the operation (and for refresh the
\* checkpoint) succeeded, and sets no cookie when it raised an error; no other
\* step hands out tokens.
C14_CookiesOnlyOnSuccessAsPair ==
    [][(last' # last \/ issued' # issued) =>
          /\ last'.route \in CookieRoutes =>
                IF last'.status \in {200, 201}
                THEN SetsPair(last'.set_cookie) /\ issued' = issued \cup {last'.set_cookie}
                ELSE last'.set_cookie = NoSetCookie /\ issued' = issued
          /\ issued' # issued => last'.route \in CookieRoutes]_vars

\* after a refresh that set a pair, a login has been answered with an error
\* and without cookies
C14_Witness ==
    /\ last.route = "login"
    /\ last.status \in {401, 403}
    /\ last.set_cookie = NoSetCookie
    /\ Len(Rotations) >= 1
    /\ \A j \in issued : SetsPair(j)

\* C15: the body of logout records the access cookie's token and nothing
\* else: the refresh token sent with the request is in the blacklist after
\* the step only if it was before, the refresh checkpoint answers it as it
\* did before, and it accepts it whenever it is unrevoked, within its lifetime
\* and of an existing user; a refresh of it then mints a new pair.
C15_LogoutRevokesAccessTokenOnly ==
    [][\A i \in DOMAIN inflight :
          (inflight[i].route = "logout" /\ inflight'[i] = Idle) =>
              \A a \in {inflight[i].cookies.access_token},
                 r \in {inflight[i].cookies.refresh_token} :
                  /\ blacklist' = blacklist \cup {a}
                  /\ r \in blacklist' <=> r \in blacklist
                  /\ RefreshCheck(r)' = RefreshCheck(r)
                  /\ (/\ WellSigned(r) /\ TypeOf(r) = "refresh" /\ r \notin blacklist
                      /\ Unexpired(r) /\ UserOf(r).exists)
                        => RefreshCheck(r)'.status = 200]_vars

\* after the logout of a session the refresh checkpoint let that session's
\* refresh token pass, and the refresh set a new pair
C15_Witness ==
    /\ last.route = "refresh" /\ last.status = 200
    /\ \E j \in issued :
          /\ j.access_token.value \in hist.loggedOut
          /\ j.access_token.value \in blacklist
          /\ j.refresh_token.value \in hist.refreshedAfterLogout
          /\ \E k \in DOMAIN Rotations :
                Rotations[k].presented = j.refresh_token.value

\* a step in which the body of logout runs for the request in slot i
LogoutBody(i) == inflight[i].route = "logout" /\ inflight'[i] = Idle

\* the body of logout runs only for a request that passed the access
\* checkpoint, and a logout request the checkpoint rejected writes no
\* blacklist record, starts no body and leaves the cookies as they are
LogoutGuarded ==
    /\ \A i \in DOMAIN inflight :
          (inflight[i] = Idle /\ inflight'[i] # Idle /\ inflight'[i].route = "logout")
              => \A a \in {inflight'[i].cookies.access_token} :
                    /\ AccessCheck(a).status = 200
                    /\ FirstFailure(a, "access") = "none"
    /\ (last' # last /\ last'.route = "logout" /\ last'.status # 200)
          => /\ UNCHANGED <<blacklist, inflight, users, issued>>
             /\ last'.set_cookie = NoSetCookie
    /\ \A i \in DOMAIN inflight :
          LogoutBody(i) => /\ last'.status = 200
                           /\ last'.set_cookie = clear_auth_cookies
                           /\ blacklist' = blacklist \cup {inflight[i].cookies.access_token}

\* C16 as stated: logout is guarded by the access checkpoint, and the body of
\* logout never records a token that is already in the blacklist.
C16_NeverRecordedTwice ==
    [][/\ LogoutGuarded
       /\ \A i \in DOMAIN inflight :
             LogoutBody(i) => inflight[i].cookies.access_token \notin blacklist]_vars

\* C16 as amended: a logout request whose access token is missing,
\* undecodable, expired, of the wrong type or blacklisted when the checkpoint
\* runs is rejected before the body: no blacklist record is written and the
\* cookies are not cleared.  (A token recorded between the checkpoint and the
\* body of a request is recorded again by that body.)
C16_LogoutGuardedByCheckpoint == [][LogoutGuarded]_vars

\* a logout presenting a token that an earlier logout recorded, still within
\* its lifetime, has been rejected as revoked
C16_Witness ==
    /\ last = Raised("logout", RevokedError)
    /\ \E t \in hist.loggedOut : Unexpired(t) /\ UserOf(t).exists /\ UserOf(t).is_active

\* C17 as stated: the refresh checkpoint returns a user only when that user's
\* is_active is true.
C17_RefreshRequiresActiveUser ==
    \A t \in PresentableTokens :
        RefreshCheck(t).status = 200 => UserOf(t).is_active

\* C17 as amended: the refresh checkpoint returns the user of every refresh
\* token that decodes, is unrevoked and whose user exists, whether the user's
\* is_active is true or false; the access checkpoint answers an access token
\* of an inactive user with 403.
C17_RefreshIgnoresActiveFlag ==
    \A t \in PresentableTokens :
        /\ RefreshCheck(t).status = 200
              <=> FirstFailure(t, "refresh") \in {"none", "active"}
        /\ RefreshCheck(t).status = 200 => RefreshCheck(t) = Returned(t.claims["sub"])
        /\ FirstFailure(t, "access") = "active" => AccessCheck(t) = InactiveError

\* a refresh request is past the checkpoint that let the refresh token of a
\* deactivated user pass, while the access token of that user is answered
\* with 403
C17_Witness ==
    /\ \E i \in DOMAIN inflight :
          /\ inflight[i].route = "refresh"
          /\ inflight[i].cookies.refresh_token \in hist.refreshedInactive
          /\ users[inflight[i].user].exists /\ ~users[inflight[i].user].is_active
    /\ \E t \in PresentableTokens : FirstFailure(t, "access") = "active"

\* a step in which register, login or the body of refresh answers with a
\* newly minted pair
IssuingStep ==
    \/ /\ requests' = requests + 1
       /\ last'.route = "register" /\ last'.status = 201
    \/ /\ requests' = requests + 1
       /\ last'.route = "login" /\ last'.status = 200
       /\ UNCHANGED <<users, inflight>>
    \/ \E i \in DOMAIN inflight : inflight[i].route = "refresh" /\ inflight'[i] = Idle

InactiveUserError == HTTPException(403, "Inactive user", NoHeaders)
NotVerifiedError == HTTPException(403, "Email not verified", NoHeaders)

====
